---- MODULE Spec2Model ----
\* A model of the duners client (src/src/client.rs, response.rs, error.rs):
\* the four elementary routes, the response parser and the polling
\* orchestrator `refresh`, run against a model of the remote service.
EXTENDS Integers, Sequences, FiniteSets, TLC

\* ---------------------------------------------------------------- bounds
\* Concurrent refresh invocations on the one client.
NumInv == 2
\* Status requests one refresh invocation may issue before the model stops it.
MaxPolls == 3
\* Direct calls of the elementary routes made beside the refresh invocations.
MaxCalls == 1
\* Query ids known to the remote: 1..MaxQuery; query q yields q rows.
MaxQuery == 2
\* Size in bytes of one result row as the remote reports it.
RowBytes == 40000
MaxParams == 2

\* ------------------------------------------------------- program constants
\* unwrap_or(5): the default poll interval in seconds.
DefaultPing == 5
\* The largest value of result_set_bytes, a u16.
U16Max == 65535

Invocations == 1..NumInv
QueryIds == 1..MaxQuery
MaxHandles == NumInv + MaxCalls
Handles == 1..MaxHandles
\* An execution id the remote never issued ("wonky job ID").
WonkyJob == 0
\* Option<T>: None is the empty sequence, Some(v) the sequence of v alone.
None == <<>>
Some(v) == <<v>>
PingChoices == {None, Some(1)}
ApiKeys == {"valid-key", "Baloney"}

\* ------------------------------------------------------ parameters.rs
DigitChars == <<"0", "1", "2", "3", "4", "5", "6", "7", "8", "9">>
Digit(n) == DigitChars[n + 1]
\* A text as the sequence of its characters, and back.
RECURSIVE Text(_)
Text(cs) == IF cs = <<>> THEN "" ELSE cs[1] \o Text(Tail(cs))
RECURSIVE Decimal(_)
Decimal(n) == IF n < 10 THEN <<Digit(n)>> ELSE Decimal(n \div 10) \o <<Digit(n % 10)>>
RECURSIVE ZeroPad(_, _)
ZeroPad(cs, w) == IF Len(cs) >= w THEN cs ELSE ZeroPad(<<"0">> \o cs, w)

NanosPerSec == 1000000000

\* The year as chrono prints it: four digits inside 0..=9999, otherwise the
\* sign and at least four digits ("{:+05}").
YearChars(y) ==
    IF y \in 0..9999 THEN ZeroPad(Decimal(y), 4)
    ELSE <<IF y < 0 THEN "-" ELSE "+">> \o ZeroPad(Decimal(IF y < 0 THEN 0 - y ELSE y), 4)

\* The fraction as chrono prints it: nothing when zero, else 3, 6 or 9 digits.
FractionChars(nano) ==
    IF nano = 0 THEN <<>>
    ELSE IF nano % 1000000 = 0 THEN <<".">> \o ZeroPad(Decimal(nano \div 1000000), 3)
    ELSE IF nano % 1000 = 0 THEN <<".">> \o ZeroPad(Decimal(nano \div 1000), 6)
    ELSE <<".">> \o ZeroPad(Decimal(nano), 9)

\* value.to_string() of a NaiveDateTime (line 37): date, a blank, time. A
\* leap second is held as second 59 with a fraction of a second or more and
\* is printed as second 60.
to_string(value) ==
    YearChars(value.year) \o <<"-">> \o ZeroPad(Decimal(value.month), 2)
    \o <<"-">> \o ZeroPad(Decimal(value.day), 2) \o <<" ">>
    \o ZeroPad(Decimal(value.hour), 2) \o <<":">> \o ZeroPad(Decimal(value.minute), 2)
    \o <<":">> \o ZeroPad(Decimal(value.second + value.nano \div NanosPerSec), 2)
    \o FractionChars(value.nano % NanosPerSec)

\* The width of "YYYY-MM-DD HH:MM:SS" (line 37).
DateWidth == 19

\* Mutant: the fraction is rounded to the nearest second before the cut.
date_rounded(name, value) ==
    LET up == value.nano % NanosPerSec >= 500000000 /\ value.second < 59
        v == [value EXCEPT !.second = IF up THEN @ + 1 ELSE @]
    IN [key |-> name, ptype |-> "Date",
        value |-> Text(SubSeq(to_string(v), 1, DateWidth))]

\* Parameter::date (lines 31-39): value.to_string()[..19].parse().unwrap()
date(name, value) ==
    [key |-> name, ptype |-> "Date",
     value |-> Text(SubSeq(to_string(value), 1, DateWidth))]

\* Parameter::text (lines 42-48)
text(name, value) == [key |-> name, ptype |-> "Text", value |-> value]

\* Parameter::list (lines 60-66)
list(name, value) == [key |-> name, ptype |-> "Enum", value |-> value]

\* Parameter::number (lines 51-57)
number(name, value) == [key |-> name, ptype |-> "Number", value |-> value]

\* The parameter lists a caller passes: none, or a list as in the tests.
ParamChoices ==
    {None, Some(<<number("NumberField", "3.1415926535"), text("TextField", "Plain Text")>>)}

\* ----------------------------------------------------------- error.rs
Dune(m) == [variant |-> "Dune", msg |-> m]
\* Errors bubbled up from Serde (de)serialization (lines 17-18)
Serde(m) == [variant |-> "Serde", msg |-> m]
Request(m) == [variant |-> "Request", msg |-> m]
Ok(v) == [ok |-> TRUE, val |-> v]
Err(e) == [ok |-> FALSE, err |-> e]

\* From<DuneError> for DuneRequestError
FromDuneError(value) == Dune(value.error)
\* From<reqwest::Error> for DuneRequestError
FromReqwestError(value) == Request(value)

\* ----------------------------------------------------------- response.rs
States == {"Complete", "Executing", "Pending", "Cancelled", "Failed"}

\* Mutant: blanks around the text are ignored.
from_str_trimmed(input) ==
    CASE input \in {"QUERY_STATE_COMPLETED", "QUERY_STATE_COMPLETED "} -> Ok("Complete")
      [] input = "QUERY_STATE_EXECUTING" -> Ok("Executing")
      [] input \in {"QUERY_STATE_PENDING", " QUERY_STATE_PENDING"} -> Ok("Pending")
      [] input = "QUERY_STATE_CANCELLED" -> Ok("Cancelled")
      [] input = "QUERY_STATE_FAILED" -> Ok("Failed")
      [] OTHER -> Err("Parse Error " \o input)

\* Mutant: a text that is not known is taken as Pending.
from_str_unknown_pending(input) ==
    CASE input = "QUERY_STATE_COMPLETED" -> Ok("Complete")
      [] input = "QUERY_STATE_EXECUTING" -> Ok("Executing")
      [] input = "QUERY_STATE_CANCELLED" -> Ok("Cancelled")
      [] input = "QUERY_STATE_FAILED" -> Ok("Failed")
      [] OTHER -> Ok("Pending")

from_str(input) ==
    CASE input = "QUERY_STATE_COMPLETED" -> Ok("Complete")
      [] input = "QUERY_STATE_EXECUTING" -> Ok("Executing")
      [] input = "QUERY_STATE_PENDING" -> Ok("Pending")
      [] input = "QUERY_STATE_CANCELLED" -> Ok("Cancelled")
      [] input = "QUERY_STATE_FAILED" -> Ok("Failed")
      [] OTHER -> Err("Parse Error " \o input)

\* Mutant: Cancelled is not classified as terminal.
is_terminal_without_cancelled(s) ==
    CASE s = "Complete" -> TRUE
      [] s = "Cancelled" -> FALSE
      [] s = "Failed" -> TRUE
      [] s = "Executing" -> FALSE
      [] s = "Pending" -> FALSE

\* Mutant: only a completed execution counts as terminal.
is_terminal_only_complete(s) == s = "Complete"

is_terminal(s) ==
    CASE s = "Complete" -> TRUE
      [] s = "Cancelled" -> TRUE
      [] s = "Failed" -> TRUE
      [] s = "Executing" -> FALSE
      [] s = "Pending" -> FALSE

\* What reqwest reports when a body does not deserialize into the target type.
DecodeFailure == "error decoding response body"
\* What reqwest reports when the exchange itself fails.
SendFailure == "error sending request"

HasFields(body, fs) == fs \subseteq DOMAIN body

\* #[derive(Deserialize)] ResultMetaData: the integer fields keep their width.
DecodeMetaData(m) ==
    IF /\ HasFields(m, {"result_set_bytes", "total_row_count"})
       /\ m.result_set_bytes \in 0..U16Max
       /\ m.total_row_count >= 0   \* a u32: every count of the model fits
    THEN Ok([result_set_bytes |-> m.result_set_bytes,
             total_row_count |-> m.total_row_count])
    ELSE Err(DecodeFailure)

\* Mutant: a fresh execution is taken to be Pending whatever was reported.
DecodeExecutionResponsePending(body) ==
    IF HasFields(body, {"execution_id", "state"}) /\ from_str(body.state).ok
    THEN Ok([execution_id |-> body.execution_id, state |-> "Pending"])
    ELSE Err(DecodeFailure)

\* #[derive(Deserialize)] ExecutionResponse
DecodeExecutionResponse(body) ==
    IF HasFields(body, {"execution_id", "state"}) /\ from_str(body.state).ok
    THEN Ok([execution_id |-> body.execution_id,
             state |-> from_str(body.state).val])
    ELSE Err(DecodeFailure)

\* #[derive(Deserialize)] CancellationResponse
DecodeCancellationResponse(body) ==
    IF HasFields(body, {"success"})
    THEN Ok([success |-> body.success])
    ELSE Err(DecodeFailure)

\* #[derive(Deserialize)] GetStatusResponse; result_metadata is optional.
DecodeGetStatusResponse(body) ==
    IF /\ HasFields(body, {"execution_id", "query_id", "state", "submitted_at"})
       /\ from_str(body.state).ok
       /\ HasFields(body, {"result_metadata"}) => DecodeMetaData(body.result_metadata).ok
    THEN Ok([execution_id |-> body.execution_id,
             query_id |-> body.query_id,
             state |-> from_str(body.state).val,
             result_metadata |->
                 IF HasFields(body, {"result_metadata"})
                 THEN <<DecodeMetaData(body.result_metadata).val>>
                 ELSE <<>>])
    ELSE Err(DecodeFailure)

\* #[derive(Deserialize)] ExecutionResult<T>
DecodeExecutionResult(r) ==
    IF HasFields(r, {"rows", "metadata"}) /\ DecodeMetaData(r.metadata).ok
    THEN Ok([rows |-> r.rows, metadata |-> DecodeMetaData(r.metadata).val])
    ELSE Err(DecodeFailure)

\* Mutant: a response that holds a result is taken to be Complete.
DecodeGetResultResponseComplete(body) ==
    IF /\ HasFields(body, {"execution_id", "query_id", "state", "submitted_at", "result"})
       /\ from_str(body.state).ok
       /\ DecodeExecutionResult(body.result).ok
    THEN Ok([execution_id |-> body.execution_id,
             query_id |-> body.query_id,
             state |-> "Complete",
             result |-> DecodeExecutionResult(body.result).val])
    ELSE Err(DecodeFailure)

\* #[derive(Deserialize)] GetResultResponse<T>; result is required.
DecodeGetResultResponse(body) ==
    IF /\ HasFields(body, {"execution_id", "query_id", "state", "submitted_at", "result"})
       /\ from_str(body.state).ok
       /\ DecodeExecutionResult(body.result).ok
    THEN Ok([execution_id |-> body.execution_id,
             query_id |-> body.query_id,
             state |-> from_str(body.state).val,
             result |-> DecodeExecutionResult(body.result).val])
    ELSE Err(DecodeFailure)

\* #[derive(Deserialize)] DuneError
DecodeDuneError(body) ==
    IF HasFields(body, {"error"})
    THEN Ok([error |-> body.error])
    ELSE Err(DecodeFailure)

\* resp.json::<T>()
Json(T, body) ==
    CASE T = "ExecutionResponse" -> DecodeExecutionResponse(body)
      [] T = "CancellationResponse" -> DecodeCancellationResponse(body)
      [] T = "GetStatusResponse" -> DecodeGetStatusResponse(body)
      [] T = "GetResultResponse" -> DecodeGetResultResponse(body)
      [] T = "DuneError" -> DecodeDuneError(body)

get_rows(self) == self.result.rows

\* ----------------------------------------------------------- client.rs
is_success(code) == code \in 200..299

\* Mutant: a server error is returned as its raw text and the envelope is
\* looked for in the other failures only.
_parse_response_server_branch(T, resp) ==
    IF is_success(resp.status)
    THEN IF Json(T, resp.body).ok
         THEN Ok(Json(T, resp.body).val)
         ELSE Err(FromReqwestError(Json(T, resp.body).err))
    ELSE IF resp.status \in 500..599
         THEN Err([variant |-> "Server", msg |-> resp.body])
         ELSE IF Json("DuneError", resp.body).ok
              THEN Err(FromDuneError(Json("DuneError", resp.body).val))
              ELSE Err(FromReqwestError(Json("DuneError", resp.body).err))

\* Mutant: a failure without an envelope is reported as an empty remote error.
_parse_response_default_envelope(T, resp) ==
    IF is_success(resp.status)
    THEN IF Json(T, resp.body).ok
         THEN Ok(Json(T, resp.body).val)
         ELSE Err(FromReqwestError(Json(T, resp.body).err))
    ELSE IF Json("DuneError", resp.body).ok
         THEN Err(FromDuneError(Json("DuneError", resp.body).val))
         ELSE Err(Dune(""))

\* Lines 83-94: a success status decodes the body as T, any other status
\* decodes it as the DuneError envelope; either decoding error is a
\* reqwest::Error and maps through From<reqwest::Error>.
_parse_response(T, resp) ==
    IF is_success(resp.status)
    THEN IF Json(T, resp.body).ok
         THEN Ok(Json(T, resp.body).val)
         ELSE Err(FromReqwestError(Json(T, resp.body).err))
    ELSE IF Json("DuneError", resp.body).ok
         THEN Err(FromDuneError(Json("DuneError", resp.body).val))
         ELSE Err(FromReqwestError(Json("DuneError", resp.body).err))

\* The outcome of one route call from what send() produced: a transport
\* failure maps through From<reqwest::Error>, a response is parsed.
RouteOutcome(T, sent) ==
    IF sent.delivered
    THEN _parse_response(T, sent.resp)
    ELSE Err(FromReqwestError(sent.err))


\* Mutant: the handle of the submit answer is never bound.
JobOfUnbound(jobs, i) == WonkyJob

\* Mutant: the handle is kept in one place shared by all invocations.
JobOfShared(jobs, i) == jobs[1]

\* The local `job_id` of one refresh invocation (client.rs line 194).
JobOf(jobs, i) == jobs[i]

\* Mutant: the error of execute_query is dropped and polling starts anyway.
AfterExecuteSwallow(out) == "get_status"

\* Mutant: the state the submit answer reports is taken as the first status.
AfterExecuteTrustSubmit(out) ==
    IF ~out.ok THEN "done"
    ELSE IF is_terminal(out.val.state) THEN "get_results" ELSE "get_status"

\* Mutant: the loop sleeps before the first status check.
AfterExecuteSleepFirst(out) == IF out.ok THEN "sleep" ELSE "done"

\* `?` on execute_query(..).await (line 194), then the first get_status.
AfterExecute(out) == IF out.ok THEN "get_status" ELSE "done"

\* Mutant: the loop goes on only while the status is Pending.
AfterStatusWhilePending(out) ==
    IF ~out.ok THEN "done"
    ELSE IF out.val.state = "Pending" THEN "sleep" ELSE "get_results"

\* `?` on get_status(..).await (lines 196, 203) and the loop test (line 197).
AfterStatus(out) ==
    IF ~out.ok THEN "done"
    ELSE IF ~is_terminal(out.val.state) THEN "sleep" ELSE "get_results"

\* Mutant: a Failed terminal status is turned into an error by refresh.
RefreshReturnFailedIsError(st, full_response) ==
    IF st = "Failed" THEN Err(Dune("execution failed")) ELSE full_response

\* Lines 205-212: whatever get_results produced is the value of refresh.
RefreshReturn(st, full_response) == full_response

\* Mutant: the supplied interval is ignored.
SleepSecsIgnored(ping_frequency) == DefaultPing

\* ping_frequency.unwrap_or(5) (line 202)
SleepSecs(ping_frequency) ==
    IF ping_frequency = <<>> THEN DefaultPing ELSE ping_frequency[1]

\* Mutant: the request is sent again (a retry).
SendTwice(req) == {req, [req EXCEPT !.seq = @ + 100]}

\* Every route call builds one request and sends it once (lines 52-79).
SendOnce(req) == {req}

\* Mutant: the first parameter of the list is skipped.
ParamMapSkipFirst(params) ==
    LET ps == IF params = None \/ params[1] = <<>> THEN <<>> ELSE Tail(params[1])
        keys == {ps[j].key : j \in 1..Len(ps)}
        last(k) == CHOOSE j \in 1..Len(ps) :
                      /\ ps[j].key = k
                      /\ \A j2 \in 1..Len(ps) : ps[j2].key = k => j2 <= j
    IN [k \in keys |-> ps[last(k)].value]

\* params.unwrap_or_default().into_iter().map(|p| (p.key, p.value))
\* .collect::<HashMap<_, _>>() (lines 53-57): of two parameters with one key
\* the later one stays.
ParamMap(params) ==
    LET ps == IF params = None THEN <<>> ELSE params[1]
        keys == {ps[j].key : j \in 1..Len(ps)}
        last(k) == CHOOSE j \in 1..Len(ps) :
                      /\ ps[j].key = k
                      /\ \A j2 \in 1..Len(ps) : ps[j2].key = k => j2 <= j
    IN [k \in keys |-> ps[last(k)].value]

\* Mutant: the GET handler sends the parameters along as the POST handler does.
GetWithBody(from, seq, route, arg, key) ==
    [from |-> from, seq |-> seq, route |-> route, arg |-> arg, key |-> key,
     method |-> "GET", body |-> Some([query_parameters |-> ParamMap(None)])]

\* _post (lines 52-67): a POST carrying the key header and the JSON body
\* {"query_parameters": params}.
Post(from, seq, route, arg, params, key) ==
    [from |-> from, seq |-> seq, route |-> route, arg |-> arg, key |-> key,
     method |-> "POST", body |-> Some([query_parameters |-> ParamMap(params)])]

\* _get (lines 70-79): a GET carrying the key header and nothing else.
Get(from, seq, route, arg, key) ==
    [from |-> from, seq |-> seq, route |-> route, arg |-> arg, key |-> key,
     method |-> "GET", body |-> None]

\* The request each route places on the wire (lines 104-106, 119, 129, 140):
\* execute_query posts its parameters, cancel_execution posts none, get_status
\* and get_results use the GET handler.
MakeRequest(from, seq, route, arg, params, key) ==
    CASE route = "execute" -> Post(from, seq, route, arg, params, key)
      [] route = "cancel" -> Post(from, seq, route, arg, None, key)
      [] OTHER -> Get(from, seq, route, arg, key)

\* The response type each route parses into (lines 107, 120, 130, 143).
TypeOf(route) ==
    CASE route = "execute" -> "ExecutionResponse"
      [] route = "cancel" -> "CancellationResponse"
      [] route = "status" -> "GetStatusResponse"
      [] route = "results" -> "GetResultResponse"

\* ------------------------------------------------------------ the remote
WireState(s) ==
    CASE s = "Complete" -> "QUERY_STATE_COMPLETED"
      [] s = "Executing" -> "QUERY_STATE_EXECUTING"
      [] s = "Pending" -> "QUERY_STATE_PENDING"
      [] s = "Cancelled" -> "QUERY_STATE_CANCELLED"
      [] s = "Failed" -> "QUERY_STATE_FAILED"

\* The states the service never leaves.
Finished(s) == s \in {"Complete", "Cancelled", "Failed"}

NoExec == [state |-> "None", query |-> 0]
\* The state a new execution is created in.
InitialStates == {"Pending", "Complete"}

RemoteRows(q) == [n \in 1..q |-> n]
RemoteMetaData(q) ==
    [result_set_bytes |-> q * RowBytes, total_row_count |-> q]

Http(code, body) == [delivered |-> TRUE, resp |-> [status |-> code, body |-> body]]
TransportFailure == [delivered |-> FALSE, err |-> SendFailure]

StatusBody(h, e) ==
    IF e.state = "Complete"
    THEN [execution_id |-> h, query_id |-> e.query, state |-> WireState(e.state),
          submitted_at |-> "t", result_metadata |-> RemoteMetaData(e.query)]
    ELSE [execution_id |-> h, query_id |-> e.query, state |-> WireState(e.state),
          submitted_at |-> "t"]

ResultsBodies(h, e) ==
    IF e.state = "Complete"
    THEN {[execution_id |-> h, query_id |-> e.query, state |-> WireState(e.state),
           submitted_at |-> "t",
           result |-> [rows |-> RemoteRows(e.query),
                       metadata |-> RemoteMetaData(e.query)]]}
    ELSE {[execution_id |-> h, query_id |-> e.query, state |-> WireState(e.state),
           submitted_at |-> "t"]}
         \cup (IF e.state = "Failed"
               THEN {[execution_id |-> h, query_id |-> e.query,
                      state |-> WireState(e.state), submitted_at |-> "t",
                      result |-> [rows |-> <<>>,
                                  metadata |-> [result_set_bytes |-> 0,
                                                total_row_count |-> 0]]]}
               ELSE {})

FreeHandles(ex) == {h \in Handles : ex[h].state = "None"}
NewHandle(ex) == CHOOSE h \in FreeHandles(ex) : \A g \in FreeHandles(ex) : h <= g

\* The states an execution may have moved on to since it was last looked at.
Advance(s) ==
    CASE s = "Pending" -> {"Pending", "Executing", "Complete", "Failed"}
      [] s = "Executing" -> {"Executing", "Complete", "Failed"}
      [] OTHER -> {s}

\* The executions as the service finds them when a request about h arrives.
Advanced(ex, h) ==
    {[ex EXCEPT ![h].state = s] : s \in Advance(ex[h].state)}

\* What the service does with a request about an execution it knows.
ServedJob(m, ex) ==
    IF m.route = "cancel"
    THEN IF Finished(ex[m.arg].state)
         THEN {<<Http(200, [success |-> FALSE]), ex>>}
         ELSE {<<Http(200, [success |-> TRUE]),
                 [ex EXCEPT ![m.arg].state = "Cancelled"]>>}
    ELSE IF m.route = "status"
    THEN {<<Http(200, StatusBody(m.arg, ex[m.arg])), ex>>}
    ELSE {<<Http(200, b), ex>> : b \in ResultsBodies(m.arg, ex[m.arg])}

\* What the service does with a request: the pairs <<answer, executions after>>.
Served(m, ex) ==
    IF m.key # "valid-key"
    THEN {<<Http(401, [error |-> "invalid API Key"]), ex>>}
    ELSE IF m.route = "execute"
    THEN IF m.arg \notin QueryIds \/ FreeHandles(ex) = {}
         THEN {<<Http(404, [error |-> "Query not found"]), ex>>}
         ELSE {<<Http(200, [execution_id |-> NewHandle(ex), state |-> WireState(s)]),
                 [ex EXCEPT ![NewHandle(ex)] = [state |-> s, query |-> m.arg]]>>
               : s \in InitialStates}
    ELSE IF m.arg \notin Handles \/ ex[m.arg].state = "None"
    THEN {<<Http(404, [error |-> "The requested execution ID is invalid."]), ex>>}
    ELSE UNION {ServedJob(m, ex1) : ex1 \in Advanced(ex, m.arg)}

\* What can go wrong between client and service, leaving the service untouched.
Disturbed(m, ex) ==
    {<<TransportFailure, ex>>,
     <<Http(429, [error |-> "Too Many Requests"]), ex>>,
     <<Http(502, [raw |-> "Bad Gateway"]), ex>>,
     <<Http(200, [raw |-> "not json"]), ex>>}
    \cup (IF m.route = "status" /\ m.arg \in Handles /\ ex[m.arg].state # "None"
          THEN {<<Http(200, [StatusBody(m.arg, ex[m.arg])
                             EXCEPT !.state = "QUERY_STATE_EXPIRED"]), ex>>}
          ELSE {})

Answers(m, ex) == Served(m, ex) \cup Disturbed(m, ex)

\* ------------------------------------------------------------------ state
VARIABLES
    api_key,   \* DuneClient.api_key
    pc,        \* where each refresh invocation stands
    args,      \* the arguments of each refresh invocation
    job_id,    \* the local job_id of each refresh invocation
    status,    \* the local status of each refresh invocation (its state)
    result,    \* what each refresh invocation returned
    log,       \* per invocation: the requests, answers and sleeps so far
    net,       \* requests sent and not yet answered
    exec,      \* the remote's executions
    upc,       \* where the direct caller stands
    ucall,     \* the route the direct caller is in and its argument
    ures,      \* what the direct caller's last call returned
    ucount,    \* direct calls completed
    uresp,     \* the HTTP answer the direct caller's last call was given
    fin,       \* the function last applied on its own, and its input
    fout,      \* what that function returned
    nsent      \* HTTP requests sent so far, per caller (0: the direct caller)

vars == <<api_key, pc, args, job_id, status, result, log, net, exec,
          upc, ucall, ures, ucount, uresp, fin, fout, nsent>>
refresh_vars == <<pc, args, job_id, status, result, log>>
user_vars == <<upc, ucall, ures, ucount, uresp>>
pure_vars == <<fin, fout>>

NoArgs == [query_id |-> 0, ping_frequency |-> <<>>]
NoResult == [ok |-> FALSE, err |-> [variant |-> "None", msg |-> ""]]
NoCall == [route |-> "none", arg |-> 0]
NoAnswer == [delivered |-> FALSE, err |-> "no call yet"]
NoInput == [fn |-> "none"]

ReqEv(route, arg) == [ev |-> "req", route |-> route, arg |-> arg]
\* The state text an answer carries, "" when it carries none.
WireOf(a) ==
    IF a.delivered /\ "state" \in DOMAIN a.resp.body THEN a.resp.body.state ELSE ""

\* served: whether the answer is the service's own (not a disturbance);
\* wire: the state text the answer carried.
RespEv(route, out, served, wire) ==
    [ev |-> "resp", route |-> route, out |-> out, served |-> served, wire |-> wire]
SleepEv(secs) == [ev |-> "sleep", secs |-> secs]

Requests(l, route) == {k \in 1..Len(l) : l[k].ev = "req" /\ l[k].route = route}
Responses(l, route) == {k \in 1..Len(l) : l[k].ev = "resp" /\ l[k].route = route}
Sleeps(l) == {k \in 1..Len(l) : l[k].ev = "sleep"}
AllRequests(l) == {k \in 1..Len(l) : l[k].ev = "req"}
AllResponses(l) == {k \in 1..Len(l) : l[k].ev = "resp"}
InFlight(who) == {m \in net : m.from = who}

\* A route call hands its request to the HTTP client.
Send(who, req) ==
    /\ net' = net \cup SendOnce(req)
    /\ nsent' = [nsent EXCEPT ![who] = @ + Cardinality(SendOnce(req))]

\* DuneClient::new / from_env
Init ==
    /\ api_key \in ApiKeys
    /\ pc = [i \in Invocations |-> "idle"]
    /\ args = [i \in Invocations |-> NoArgs]
    /\ job_id = [i \in Invocations |-> WonkyJob]
    /\ status = [i \in Invocations |-> "Unset"]
    /\ result = [i \in Invocations |-> NoResult]
    /\ log = [i \in Invocations |-> <<>>]
    /\ net = {}
    /\ exec = [h \in Handles |-> NoExec]
    /\ upc = "idle"
    /\ ucall = NoCall
    /\ ures = NoResult
    /\ ucount = 0
    /\ uresp = NoAnswer
    /\ fin = NoInput
    /\ fout = FALSE
    /\ nsent = [w \in 0..NumInv |-> 0]

\* ------------------------------------------------------------- refresh
\* refresh is called; execute_query sends its POST (line 194).
RefreshCall(i) ==
    /\ pc[i] = "idle"
    /\ \E q \in QueryIds, p \in PingChoices :
          /\ args' = [args EXCEPT ![i] = [query_id |-> q, ping_frequency |-> p]]
          /\ \E ps \in ParamChoices :
                Send(i, MakeRequest(i, 1, "execute", q, ps, api_key))
          /\ log' = [log EXCEPT ![i] = Append(@, ReqEv("execute", q))]
    /\ pc' = [pc EXCEPT ![i] = "await_execute"]
    /\ UNCHANGED <<api_key, job_id, status, result, exec>>
    /\ UNCHANGED user_vars
    /\ UNCHANGED pure_vars

\* The execute answer arrives: `?` returns the error or job_id is bound.
ExecuteReturn(i) ==
    /\ pc[i] = "await_execute"
    /\ \E m \in InFlight(i) : \E a \in Answers(m, exec) :
          LET out == RouteOutcome(TypeOf(m.route), a[1]) IN
          /\ net' = net \ {m}
          /\ exec' = a[2]
          /\ log' = [log EXCEPT ![i] = Append(@, RespEv("execute", out, a \in Served(m, exec), WireOf(a[1])))]
          /\ pc' = [pc EXCEPT ![i] = AfterExecute(out)]
          /\ job_id' = [job_id EXCEPT ![i] = IF out.ok THEN out.val.execution_id ELSE @]
          /\ result' = [result EXCEPT ![i] = IF AfterExecute(out) = "done" THEN out ELSE @]
    /\ UNCHANGED <<api_key, args, status>>
    /\ UNCHANGED <<nsent>>
    /\ UNCHANGED user_vars
    /\ UNCHANGED pure_vars

\* Mutant: the status request is sent without awaiting the submit answer.
IssueStatusEager(i) ==
    /\ pc[i] \in {"get_status", "await_execute"}
    /\ Cardinality(Requests(log[i], "status")) < MaxPolls
    /\ Send(i, MakeRequest(i, Len(log[i]) + 1, "status",
                                            JobOf(job_id, i), None, api_key))
    /\ log' = [log EXCEPT ![i] = Append(@, ReqEv("status", JobOf(job_id, i)))]
    /\ pc' = [pc EXCEPT ![i] = "await_status"]
    /\ UNCHANGED <<api_key, args, job_id, status, result, exec>>
    /\ UNCHANGED user_vars
    /\ UNCHANGED pure_vars

\* get_status sends its GET (lines 196 and 203).
IssueStatus(i) ==
    /\ pc[i] = "get_status"
    /\ Cardinality(Requests(log[i], "status")) < MaxPolls
    /\ Send(i, MakeRequest(i, Len(log[i]) + 1, "status",
                                            JobOf(job_id, i), None, api_key))
    /\ log' = [log EXCEPT ![i] = Append(@, ReqEv("status", JobOf(job_id, i)))]
    /\ pc' = [pc EXCEPT ![i] = "await_status"]
    /\ UNCHANGED <<api_key, args, job_id, status, result, exec>>
    /\ UNCHANGED user_vars
    /\ UNCHANGED pure_vars

\* The status answer arrives: `?`, then the loop test of line 197.
StatusReturn(i) ==
    /\ pc[i] = "await_status"
    /\ \E m \in InFlight(i) : \E a \in Answers(m, exec) :
          LET out == RouteOutcome(TypeOf(m.route), a[1]) IN
          /\ net' = net \ {m}
          /\ exec' = a[2]
          /\ log' = [log EXCEPT ![i] = Append(@, RespEv("status", out, a \in Served(m, exec), WireOf(a[1])))]
          /\ pc' = [pc EXCEPT ![i] = AfterStatus(out)]
          /\ status' = [status EXCEPT ![i] = IF out.ok THEN out.val.state ELSE @]
          /\ result' = [result EXCEPT ![i] = IF AfterStatus(out) = "done" THEN out ELSE @]
    /\ UNCHANGED <<api_key, args, job_id>>
    /\ UNCHANGED <<nsent>>
    /\ UNCHANGED user_vars
    /\ UNCHANGED pure_vars

\* sleep(Duration::from_secs(..)).await (line 202)
Sleep(i) ==
    /\ pc[i] = "sleep"
    /\ log' = [log EXCEPT ![i] = Append(@, SleepEv(SleepSecs(args[i].ping_frequency)))]
    /\ pc' = [pc EXCEPT ![i] = "get_status"]
    /\ UNCHANGED <<api_key, args, job_id, status, result, net, exec, nsent>>
    /\ UNCHANGED user_vars
    /\ UNCHANGED pure_vars

\* get_results sends its GET (line 205).
IssueResults(i) ==
    /\ pc[i] = "get_results"
    /\ Send(i, MakeRequest(i, Len(log[i]) + 1, "results",
                                            JobOf(job_id, i), None, api_key))
    /\ log' = [log EXCEPT ![i] = Append(@, ReqEv("results", JobOf(job_id, i)))]
    /\ pc' = [pc EXCEPT ![i] = "await_results"]
    /\ UNCHANGED <<api_key, args, job_id, status, result, exec>>
    /\ UNCHANGED user_vars
    /\ UNCHANGED pure_vars

\* The results answer arrives and refresh returns (lines 205-212).
ResultsReturn(i) ==
    /\ pc[i] = "await_results"
    /\ \E m \in InFlight(i) : \E a \in Answers(m, exec) :
          LET out == RouteOutcome(TypeOf(m.route), a[1]) IN
          /\ net' = net \ {m}
          /\ exec' = a[2]
          /\ log' = [log EXCEPT ![i] = Append(@, RespEv("results", out, a \in Served(m, exec), WireOf(a[1])))]
          /\ result' = [result EXCEPT ![i] = RefreshReturn(status[i], out)]
    /\ pc' = [pc EXCEPT ![i] = "done"]
    /\ UNCHANGED <<api_key, args, job_id, status>>
    /\ UNCHANGED <<nsent>>
    /\ UNCHANGED user_vars
    /\ UNCHANGED pure_vars

\* ------------------------------------------------- the elementary routes
KnownJobs == {WonkyJob} \cup {h \in Handles : exec[h].state # "None"}

\* execute_query, cancel_execution, get_status or get_results called directly.
UserCall ==
    /\ upc = "idle"
    /\ ucount < MaxCalls
    /\ \E route \in {"execute", "cancel", "status", "results"} :
       \E arg \in (IF route = "execute" THEN QueryIds ELSE KnownJobs) :
       \E ps \in (IF route = "execute" THEN ParamChoices ELSE {None}) :
          /\ ucall' = [route |-> route, arg |-> arg]
          /\ Send(0, MakeRequest(0, ucount + 1, route, arg, ps, api_key))
    /\ upc' = "await"
    /\ UNCHANGED <<api_key, exec, ures, ucount, uresp>>
    /\ UNCHANGED refresh_vars
    /\ UNCHANGED pure_vars

\* The answer of the direct call arrives and the call returns.
UserReturn ==
    /\ upc = "await"
    /\ \E m \in InFlight(0) : \E a \in Answers(m, exec) :
          /\ net' = net \ {m}
          /\ exec' = a[2]
          /\ ures' = RouteOutcome(TypeOf(m.route), a[1])
          /\ uresp' = a[1]
    /\ upc' = "idle"
    /\ ucount' = ucount + 1
    /\ UNCHANGED <<api_key, ucall, nsent>>
    /\ UNCHANGED refresh_vars
    /\ UNCHANGED pure_vars

\* One step of refresh invocation i.
RefreshStep(i) ==
    \/ RefreshCall(i)
    \/ ExecuteReturn(i)
    \/ IssueStatus(i)
    \/ StatusReturn(i)
    \/ Sleep(i)
    \/ IssueResults(i)
    \/ ResultsReturn(i)

\* One refresh invocation beside direct calls of the elementary routes.
Next ==
    \/ RefreshStep(1)
    \/ UserCall
    \/ UserReturn

Spec == Init /\ [][Next]_vars

\* NumInv refresh invocations on the one client, interleaved.
ConcNext == \E i \in Invocations : RefreshStep(i)

ConcSpec == Init /\ [][ConcNext]_vars

\* --------------------------------- the routes against any HTTP answer
StatusCodes == {200, 204, 299, 300, 401, 404, 429, 500, 503}

\* Bodies of every kind: no JSON, the error envelope, each response type
\* well formed and ill formed, and an envelope beside other fields.
AnyBodies ==
    {[raw |-> "not json"], [raw |-> "Bad Gateway"],
     [error |-> "invalid API Key"], [error |-> "An internal error occured"],
     [success |-> TRUE], [error |-> "cancel refused", success |-> FALSE],
     [state |-> "QUERY_STATE_PENDING"]}
    \cup {[execution_id |-> h, state |-> w] :
             h \in {WonkyJob, 1},
             w \in {"QUERY_STATE_PENDING", "QUERY_STATE_EXECUTING",
                    "QUERY_STATE_COMPLETED", "QUERY_STATE_EXPIRED"}}
    \cup {StatusBody(1, [state |-> st, query |-> q]) :
             st \in {"Pending", "Complete"}, q \in QueryIds}
    \cup UNION {ResultsBodies(1, [state |-> st, query |-> q]) :
                   st \in {"Complete", "Failed"}, q \in QueryIds}

AnyAnswers == {TransportFailure} \cup {Http(c, b) : c \in StatusCodes, b \in AnyBodies}

\* The direct call is answered by any answer at all and returns.
UserReturnAny ==
    /\ upc = "await"
    /\ \E m \in InFlight(0) : \E a \in AnyAnswers :
          /\ net' = net \ {m}
          /\ ures' = RouteOutcome(TypeOf(m.route), a)
          /\ uresp' = a
    /\ upc' = "idle"
    /\ ucount' = ucount + 1
    /\ UNCHANGED <<api_key, exec, ucall, nsent>>
    /\ UNCHANGED refresh_vars
    /\ UNCHANGED pure_vars

RouteNext ==
    \/ UserCall
    \/ UserReturnAny

\* Direct calls of the four routes, each answered by an arbitrary HTTP answer.
RouteSpec == Init /\ [][RouteNext]_vars

\* ------------------------------------------- the functions on their own
\* Status texts: the five of the wire, and near misses of them.
StatusTexts ==
    {"QUERY_STATE_COMPLETED", "QUERY_STATE_EXECUTING", "QUERY_STATE_PENDING",
     "QUERY_STATE_CANCELLED", "QUERY_STATE_FAILED",
     "invalid", "", "query_state_completed", "QUERY_STATE_COMPLETE",
     "QUERY_STATE_COMPLETED ", " QUERY_STATE_PENDING", "Complete", "COMPLETED",
     "QUERY_STATE_EXPIRED", "QUERY_STATE_COMPLETED_PARTIAL"}

Years == {0 - 1, 0, 2022, 9999, 10000}
Nanos == {0, 123, 123000, 123000000, 999999999, 1500000000}
DateTimes ==
    {v \in [year : Years, month : {1, 12}, day : {1, 31}, hour : {1, 23},
             minute : {2, 59}, second : {3, 59}, nano : Nanos] :
        v.nano >= NanosPerSec => v.second = 59}

\* What a function applied on its own leaves alone: the client and its calls.
Untouched ==
    /\ UNCHANGED <<api_key, net, exec, nsent>>
    /\ UNCHANGED refresh_vars
    /\ UNCHANGED user_vars

\* ExecutionStatus::is_terminal applied to a status.
is_terminal_call ==
    /\ fin.fn = "none"
    /\ \E s \in States :
          /\ fin' = [fn |-> "is_terminal", arg |-> s]
          /\ fout' = is_terminal(s)
    /\ Untouched

\* ExecutionStatus::from_str applied to a text.
from_str_call ==
    /\ fin.fn = "none"
    /\ \E input \in StatusTexts :
          /\ fin' = [fn |-> "from_str", arg |-> input]
          /\ fout' = from_str(input)
    /\ Untouched

\* Parameter::date applied to a date-time.
date_call ==
    /\ fin.fn = "none"
    /\ \E value \in DateTimes :
          /\ fin' = [fn |-> "date", arg |-> value]
          /\ fout' = date("StartTime", value)
    /\ Untouched

\* The parameters lists are made of, two of them of one name.
ParamPool ==
    {text("TextField", "Plain Text"), text("TextField", "Other"),
     number("NumberField", "3.1415926535"), list("ListField", "Option 1"),
     date("DateField", [year |-> 2022, month |-> 5, day |-> 4, hour |-> 0,
                        minute |-> 0, second |-> 0, nano |-> 0])}

\* No list, and every list of up to MaxParams parameters.
ParamLists ==
    {None} \cup {Some(ps) : ps \in UNION {[1..n -> ParamPool] : n \in 0..MaxParams}}

\* execute_query builds its request from a parameter list.
execute_query_call ==
    /\ fin.fn = "none"
    /\ \E q \in QueryIds, params \in ParamLists :
          /\ fin' = [fn |-> "execute_query", arg |-> params]
          /\ fout' = MakeRequest(0, 1, "execute", q, params, api_key)
    /\ Untouched

PureNext ==
    \/ is_terminal_call
    \/ from_str_call
    \/ date_call
    \/ execute_query_call

\* The pure functions applied to inputs of every kind.
PureSpec == Init /\ [][PureNext]_vars

\* ------------------------------------------------------------ the claims
Before(l, k, S) == {j \in S : j < k}
After(l, k, S) == {j \in S : j > k}
OkStatus(l) == {k \in Responses(l, "status") : l[k].out.ok}
TerminalSeen(l) == {k \in OkStatus(l) : is_terminal(l[k].out.val.state)}
Failures(l) == {k \in AllResponses(l) : ~l[k].out.ok}
SubmitOk(l) == \E k \in Responses(l, "execute") : l[k].out.ok

\* C1: within one refresh invocation the requests are strictly sequential:
\* submit first, status requests only after the submit answer, the results
\* request only after the answer of the last status request, and never more
\* than one request of the invocation awaiting its answer.
C1_Sequential ==
    \A i \in Invocations :
        LET l == log[i] IN
        /\ Cardinality(InFlight(i)) <= 1
        /\ Cardinality(AllRequests(l)) - Cardinality(AllResponses(l)) =
               Cardinality(InFlight(i))
        /\ \A k \in AllRequests(l) :
               k < Len(l) => l[k + 1].ev = "resp" /\ l[k + 1].route = l[k].route
        /\ \A k \in AllResponses(l) :
               k > 1 /\ l[k - 1].ev = "req" /\ l[k - 1].route = l[k].route
        /\ l # <<>> => Requests(l, "execute") = {1}
        /\ \A k \in Requests(l, "status") :
               Before(l, k, Responses(l, "execute")) # {}
        /\ \A k \in Requests(l, "results") :
               /\ Requests(l, "status") # {}
               /\ \A j \in Requests(l, "status") : j + 1 < k
               /\ After(l, k, Requests(l, "status")) = {}

C1_Witness ==
    /\ pc[1] = "done"
    /\ Cardinality(Requests(log[1], "status")) >= 2
    /\ Requests(log[1], "results") # {}

\* C2: once the polling loop has seen a terminal status, refresh calls
\* get_results exactly once and returns what that call returned, unchanged,
\* whether the status was Complete, Cancelled or Failed.
C2_TerminalThenResults ==
    \A i \in Invocations :
        LET l == log[i] IN
        /\ Cardinality(Requests(l, "results")) <= 1
        /\ pc[i] = "done" /\ TerminalSeen(l) # {} =>
               /\ Cardinality(Requests(l, "results")) = 1
               /\ l[Len(l)].ev = "resp" /\ l[Len(l)].route = "results"
               /\ result[i] = l[Len(l)].out

C2_Witness ==
    /\ pc[1] = "done"
    /\ status[1] = "Failed"
    /\ result[1].ok
    /\ result[1].val.state = "Failed"

\* C3: refresh returns the first error of any step as it is, and never
\* returns a success after a step has failed.
C3_FirstError ==
    \A i \in Invocations :
        LET l == log[i] IN
        /\ \A k \in Failures(l) :
               /\ k = Len(l)
               /\ pc[i] = "done"
               /\ result[i] = l[k].out
        /\ pc[i] = "done" /\ result[i].ok => Failures(l) = {}
        /\ pc[i] # "done" => result[i] = NoResult

C3_Witness ==
    /\ pc[1] = "done"
    /\ Cardinality(OkStatus(log[1])) >= 1
    /\ Failures(log[1]) # {}
    /\ log[1][Len(log[1])].route = "status"
    /\ result[1] = Err(Dune("Too Many Requests"))

\* C4: no retry anywhere: every route call sends exactly one HTTP request,
\* and a refresh invocation sends nothing after one of its steps has failed.
C4_NoRetry ==
    /\ nsent[0] = ucount + (IF upc = "await" THEN 1 ELSE 0)
    /\ Cardinality(InFlight(0)) = (IF upc = "await" THEN 1 ELSE 0)
    /\ \A i \in Invocations :
           LET l == log[i] IN
           /\ nsent[i] = Cardinality(AllRequests(l))
           /\ \A k \in Failures(l) : After(l, k, AllRequests(l)) = {}
           /\ Failures(l) # {} => InFlight(i) = {}

C4_Witness ==
    /\ ucount >= 1 /\ ucall.route = "cancel" /\ ~ures.ok
    /\ pc[1] = "done"
    /\ Failures(log[1]) # {}
    /\ log[1][Len(log[1])].route = "status"
    /\ nsent[1] >= 3

\* C5: after a successful submit the status is checked at least once,
\* whatever state the submit answer reported; the results request is sent
\* only when the last status seen is terminal, and no status request is sent
\* after a terminal status has been seen.
C5_StatusLoop ==
    \A i \in Invocations :
        LET l == log[i] IN
        /\ SubmitOk(l) /\ Requests(l, "status") = {} => pc[i] = "get_status"
        /\ \A k \in Requests(l, "results") :
               /\ l[k - 1].ev = "resp" /\ l[k - 1].route = "status"
               /\ l[k - 1].out.ok
               /\ is_terminal(l[k - 1].out.val.state)
        /\ \A k \in Requests(l, "status") : Before(l, k, TerminalSeen(l)) = {}
        /\ pc[i] \in {"get_results", "await_results"} => is_terminal(status[i])

C5_Witness ==
    /\ Len(log[1]) >= 3
    /\ log[1][2].out.ok
    /\ is_terminal(log[1][2].out.val.state)
    /\ log[1][3] = ReqEv("status", job_id[1])

\* C6 as stated: a sleep precedes every status check's result, the first
\* one after submission included.
C6_SleepBeforeEveryCheck ==
    \A i \in Invocations :
        LET l == log[i] IN
        \A k \in Responses(l, "status") :
            \E j \in Before(l, k, Sleeps(l)) :
                \A r \in Before(l, k, Responses(l, "status")) : r < j

\* C6 amended: the sleep occurs on every loop iteration, that is after every
\* non-terminal status and before every status check but the first; there is
\* no sleep between submission and the first status check.
C6_SleepPerIteration ==
    \A i \in Invocations :
        LET l == log[i] IN
        /\ \A k \in Sleeps(l) :
               /\ k - 1 \in OkStatus(l)
               /\ ~is_terminal(l[k - 1].out.val.state)
               /\ l[k].secs = SleepSecs(args[i].ping_frequency)
        /\ \A k \in Requests(l, "status") :
               IF Before(l, k, Requests(l, "status")) = {}
               THEN Before(l, k, Sleeps(l)) = {} /\ k - 1 \in Responses(l, "execute")
               ELSE k - 1 \in Sleeps(l)
        /\ \A k \in OkStatus(l) :
               ~is_terminal(l[k].out.val.state) /\ k < Len(l) => k + 1 \in Sleeps(l)

C6_Witness ==
    /\ Cardinality(Sleeps(log[1])) >= 2
    /\ Cardinality(Requests(log[1], "status")) >= 3
    /\ log[1][3].ev = "req" /\ log[1][3].route = "status"

\* C7: refresh enforces no timeout: as long as the submit succeeded, no
\* request failed and every status seen is Pending or Executing, refresh has
\* not returned, has sent no results request and is still in its loop, ready
\* to sleep or to send the next status request, however many polls it made.
C7_NoTimeout ==
    \A i \in Invocations :
        LET l == log[i] IN
        SubmitOk(l) /\ Failures(l) = {} /\ TerminalSeen(l) = {} =>
            /\ pc[i] \in {"get_status", "await_status", "sleep"}
            /\ Requests(l, "results") = {}
            /\ result[i] = NoResult
            /\ pc[i] = "sleep" => ENABLED Sleep(i)
            /\ pc[i] = "get_status"
                   /\ Cardinality(Requests(l, "status")) < MaxPolls
                   => ENABLED IssueStatus(i)

C7_Witness ==
    /\ Cardinality(OkStatus(log[1])) = MaxPolls
    /\ TerminalSeen(log[1]) = {}
    /\ Failures(log[1]) = {}
    /\ pc[1] = "get_status"
    /\ log[1][Len(log[1])].ev = "sleep"

\* C8 as stated: a refresh whose execution is Complete at the service, and
\* whose every request the service answered itself, has returned a result
\* set with as many rows as the metadata counts.
C8_CompleteReturnsRows ==
    \A i \in Invocations :
        LET l == log[i] IN
        /\ pc[i] = "done"
        /\ job_id[i] \in Handles
        /\ exec[job_id[i]].state = "Complete"
        /\ \A k \in AllResponses(l) : l[k].served
        => /\ result[i].ok
           /\ Len(get_rows(result[i].val)) = result[i].val.result.metadata.total_row_count
           /\ Len(get_rows(result[i].val)) = Len(RemoteRows(exec[job_id[i]].query))

\* C9: a cancel call made beside a polling refresh does not touch the
\* invocation; the loop stays in its polling states until one of its own
\* status requests sees a terminal state, and a status answer the service
\* gives after it cancelled the execution makes the loop see Cancelled and
\* go on to the results request.
C9_CancelSeenByLoop ==
    /\ [](\A i \in Invocations :
             /\ job_id[i] \in Handles
             /\ exec[job_id[i]].state = "Cancelled"
             /\ TerminalSeen(log[i]) = {}
             /\ Failures(log[i]) = {}
             => pc[i] \in {"get_status", "await_status", "sleep"})
    /\ [][/\ upc' # upc => UNCHANGED refresh_vars
          /\ \A i \in Invocations :
                /\ pc[i] = "await_status"
                /\ pc'[i] # "await_status"
                /\ job_id[i] \in Handles
                /\ exec[job_id[i]].state = "Cancelled"
                /\ log'[i][Len(log'[i])].served
                => /\ status'[i] = "Cancelled"
                   /\ pc'[i] = "get_results"]_vars

C9_Witness ==
    /\ ucall = [route |-> "cancel", arg |-> job_id[1]]
    /\ ures = Ok([success |-> TRUE])
    /\ Cardinality(OkStatus(log[1])) >= 2
    /\ status[1] = "Cancelled"
    /\ pc[1] = "await_results"

\* refresh run alone on the answers it was given: the log it produces,
\* whether it has returned, and what it returned.
RECURSIVE SoloFrom(_, _, _, _, _)
SoloFrom(a, route, job, answers, l) ==
    LET l1 == Append(l, ReqEv(route, IF route = "execute" THEN a.query_id ELSE job)) IN
    IF answers = <<>>
    THEN [log |-> l1, done |-> FALSE, result |-> NoResult]
    ELSE LET out == answers[1].out
             l2 == Append(l1, RespEv(route, out, answers[1].served, answers[1].wire))
         IN
         IF route = "results" \/ ~out.ok
         THEN [log |-> l2, done |-> TRUE, result |-> out]
         ELSE IF route = "execute"
         THEN SoloFrom(a, "status", out.val.execution_id, Tail(answers), l2)
         ELSE IF is_terminal(out.val.state)
         THEN SoloFrom(a, "results", job, Tail(answers), l2)
         ELSE SoloFrom(a, "status", job, Tail(answers),
                       Append(l2, SleepEv(SleepSecs(a.ping_frequency))))

AnswersIn(l) == SelectSeq(l, LAMBDA e : e.ev = "resp")
Solo(i) == SoloFrom(args[i], "execute", WonkyJob, AnswersIn(log[i]), <<>>)
IsPrefix(l, m) == Len(l) <= Len(m) /\ SubSeq(m, 1, Len(l)) = l

\* C10: concurrent refresh invocations are independent: under every
\* interleaving each invocation's requests and result are those of the same
\* call run alone on the same answers, and the API key, the one value they
\* share, is never written once the client is built.
C10_Independent ==
    /\ [](\A i \in Invocations :
             pc[i] # "idle" =>
                 /\ IsPrefix(log[i], Solo(i).log)
                 /\ Len(Solo(i).log) <= Len(log[i]) + 2
                 /\ (pc[i] = "done") = Solo(i).done
                 /\ pc[i] = "done" => log[i] = Solo(i).log /\ result[i] = Solo(i).result)
    /\ [](\A m \in net : m.key = api_key)
    /\ [][api_key' = api_key]_vars

C10_Witness ==
    /\ pc[1] = "done" /\ pc[2] = "done"
    /\ result[1].ok /\ ~result[2].ok
    /\ job_id[1] = 2 /\ job_id[2] = 1
    /\ Cardinality(Sleeps(log[1])) >= 1
    /\ Cardinality(Sleeps(log[2])) >= 1

\* C11: is_terminal(s) is true exactly for Complete, Cancelled and Failed, and
\* false for Pending and Executing: for every status it was applied to, what
\* it returned is whether the status is one of those three.
C11_TerminalStatuses ==
    fin.fn = "is_terminal" =>
        /\ fin.arg \in {"Complete", "Cancelled", "Failed", "Pending", "Executing"}
        /\ fin.arg \in {"Complete", "Cancelled", "Failed"} => fout = TRUE
        /\ fin.arg \in {"Pending", "Executing"} => fout = FALSE

C11_Witness == fin.fn = "is_terminal" /\ fin.arg = "Cancelled" /\ fout = TRUE

\* C12: parsing a status text is an exact match of the five wire texts, each
\* giving its status, and any other text fails with an error that names the
\* text as it was given.
C12_ExactMatch ==
    fin.fn = "from_str" =>
        LET wire == [c \in {"QUERY_STATE_COMPLETED"} |-> "Complete"]
                    @@ [c \in {"QUERY_STATE_EXECUTING"} |-> "Executing"]
                    @@ [c \in {"QUERY_STATE_PENDING"} |-> "Pending"]
                    @@ [c \in {"QUERY_STATE_CANCELLED"} |-> "Cancelled"]
                    @@ [c \in {"QUERY_STATE_FAILED"} |-> "Failed"]
        IN IF fin.arg \in DOMAIN wire
           THEN fout.ok /\ fout.val = wire[fin.arg]
           ELSE ~fout.ok /\ fout.err = "Parse Error " \o fin.arg

C12_Witness ==
    /\ fin.fn = "from_str"
    /\ fin.arg = "QUERY_STATE_COMPLETED "
    /\ ~fout.ok
    /\ fout.err = "Parse Error QUERY_STATE_COMPLETED "

\* "YYYY-MM-DD HH:MM:SS" of a date-time whose year has four digits; a leap
\* second is second 60.
TwoDigits(n) == Digit(n \div 10) \o Digit(n % 10)
Stamp(v) ==
    TwoDigits(v.year \div 100) \o TwoDigits(v.year % 100) \o "-"
    \o TwoDigits(v.month) \o "-" \o TwoDigits(v.day) \o " "
    \o TwoDigits(v.hour) \o ":" \o TwoDigits(v.minute) \o ":"
    \o TwoDigits(IF v.nano >= NanosPerSec THEN 60 ELSE v.second)

Answered == upc = "idle" /\ ucount > 0 /\ uresp.delivered
\* The body of that response decodes as the type the route expects.
BodyFits == Json(TypeOf(ucall.route), uresp.resp.body).ok

\* C13 as stated: for every route, a success response whose body does not
\* match the expected schema fails with the decode member of the error type
\* (Serde), not with the transport member (Request) or the remote one (Dune).
C13_DecodeError ==
    (Answered /\ uresp.resp.status \in 200..299 /\ ~BodyFits) =>
        ~ures.ok /\ ures.err.variant = "Serde"

\* C14: for every route and every response of a status outside 200..299,
\* server errors included, whose body holds the envelope {error: m}, the call
\* returns the remote error Dune(m) with exactly that m.
C14_EnvelopeIsDune ==
    (Answered /\ uresp.resp.status \notin 200..299
              /\ "error" \in DOMAIN uresp.resp.body) =>
        /\ ~ures.ok
        /\ ures.err.variant = "Dune"
        /\ ures.err.msg = uresp.resp.body.error

C14_Witness ==
    /\ Answered
    /\ ucall.route = "execute"
    /\ uresp.resp.status = 500
    /\ uresp.resp.body = [error |-> "An internal error occured"]
    /\ ures = Err(Dune("An internal error occured"))

\* C15: for every route, a response of a status outside 200..299 whose body
\* holds no envelope gives a transport or decode error: never a success and
\* never a remote (Dune) error, even when the body fits the route's type.
C15_NoEnvelope ==
    (Answered /\ uresp.resp.status \notin 200..299
              /\ "error" \notin DOMAIN uresp.resp.body) =>
        /\ ~ures.ok
        /\ ures.err.variant \in {"Request", "Serde"}

C15_Witness ==
    /\ Answered
    /\ ucall.route = "cancel"
    /\ uresp.resp.status = 503
    /\ uresp.resp.body = [success |-> TRUE]
    /\ ~ures.ok
    /\ ures.err.variant = "Request"

\* C19 as stated: for every valid query id, an execute that returns a handle
\* returns a non-empty one and a status that is Pending or Executing.
C19_InitialNonTerminal ==
    (Answered /\ ucall.route = "execute" /\ ucall.arg \in QueryIds /\ ures.ok) =>
        /\ ures.val.execution_id # WonkyJob
        /\ ures.val.state \in {"Pending", "Executing"}

\* C19, amended: for every query id, execute returns a handle exactly when
\* the service answers with a success status and a body holding a handle and
\* one of the five states, and then it returns that handle and that state as
\* reported, terminal or not; the client checks neither.
C19_AsReported ==
    (Answered /\ ucall.route = "execute") =>
        LET body == uresp.resp.body
            fits == /\ uresp.resp.status \in 200..299
                    /\ {"execution_id", "state"} \subseteq DOMAIN body
                    /\ \E s \in States : WireState(s) = body.state
        IN /\ ures.ok <=> fits
           /\ fits => /\ ures.val.execution_id = body.execution_id
                       /\ WireState(ures.val.state) = body.state

C19_Witness ==
    /\ Answered
    /\ ucall.route = "execute"
    /\ ucall.arg \in QueryIds
    /\ uresp.resp.body = [execution_id |-> 1, state |-> "QUERY_STATE_COMPLETED"]
    /\ ures = Ok([execution_id |-> 1, state |-> "Complete"])

\* C16 as stated: refresh returns a ResultSet only when the terminal status
\* it observed was Complete.
C16_OnlyAfterComplete ==
    \A i \in Invocations :
        (pc[i] = "done" /\ result[i].ok) => status[i] = "Complete"

\* C16, amended: refresh returns a ResultSet only after it has observed a
\* terminal status (Complete, Cancelled or Failed) and its results request
\* has succeeded; the ResultSet is the one that request produced.
C16_OnlyAfterTerminal ==
    \A i \in Invocations :
        LET l == log[i] IN
        (pc[i] = "done" /\ result[i].ok) =>
            /\ status[i] \in {"Complete", "Cancelled", "Failed"}
            /\ \E k \in OkStatus(l) :
                   /\ l[k].out.val.state = status[i]
                   /\ After(l, k, AllRequests(l)) = Requests(l, "results")
            /\ Len(l) \in Responses(l, "results")
            /\ result[i] = l[Len(l)].out

C16_Witness ==
    /\ pc[1] = "done"
    /\ result[1].ok
    /\ status[1] = "Failed"
    /\ get_rows(result[1].val) = <<>>
    /\ Cardinality(Requests(log[1], "results")) = 1

\* What refresh has put on the wire never names the cancel route.
RefreshRoutes(i) ==
    {log[i][k].route : k \in AllRequests(log[i])} \cup {m.route : m \in InFlight(i)}

\* C17: refresh only observes an execution: it issues execute, status and
\* results requests and never a cancel request, status and results requests
\* are GET requests without a body, and an execution is cancelled only by a
\* cancel call made beside refresh.
C17_ReadOnly ==
    /\ [](/\ \A i \in Invocations :
              RefreshRoutes(i) \subseteq {"execute", "status", "results"}
          /\ \A m \in net :
              m.route \in {"status", "results"} => m.method = "GET" /\ m.body = None)
    /\ [][\A h \in Handles :
              (exec[h].state # "Cancelled" /\ exec'[h].state = "Cancelled") =>
                  upc = "await" /\ ucall.route = "cancel" /\ upc' = "idle"]_vars

C17_Witness ==
    /\ pc[1] = "await_results"
    /\ \E m \in InFlight(1) : m.route = "results" /\ m.method = "GET" /\ m.body = None
    /\ \E k \in Requests(log[1], "status") : TRUE
    /\ exec[job_id[1]].state = "Cancelled"

\* C18: every sleep of one refresh invocation lasts the ping_frequency it was
\* given, in seconds, or 5 seconds when it was given none; so all sleeps of
\* one invocation last the same.
C18_PollInterval ==
    \A i \in Invocations :
        LET l == log[i] IN
        /\ \A k \in Sleeps(l) :
               l[k].secs = IF args[i].ping_frequency = None THEN 5
                           ELSE args[i].ping_frequency[1]
        /\ \A j, k \in Sleeps(l) : l[j].secs = l[k].secs

C18_Witness ==
    /\ args[1].ping_frequency = None
    /\ Cardinality(Sleeps(log[1])) >= 2
    /\ \A k \in Sleeps(log[1]) : log[1][k].secs = 5

\* C21: the body of an execute POST is {"query_parameters": M}; M is empty
\* when no list is given, and for a list whose names are all different M
\* has exactly one entry per parameter, its name mapped to its value: none
\* is dropped and no value is replaced.
C21_QueryParameters ==
    fin.fn = "execute_query" =>
        LET ps == IF fin.arg = None THEN <<>> ELSE fin.arg[1]
            unique == \A j, k \in 1..Len(ps) : ps[j].key = ps[k].key => j = k
        IN /\ fout.method = "POST"
           /\ fout.body # None
           /\ DOMAIN fout.body[1] = {"query_parameters"}
           /\ LET M == fout.body[1].query_parameters IN
              /\ fin.arg = None => DOMAIN M = {}
              /\ unique => /\ DOMAIN M = {ps[j].key : j \in 1..Len(ps)}
                            /\ Cardinality(DOMAIN M) = Len(ps)
                            /\ \A j \in 1..Len(ps) : M[ps[j].key] = ps[j].value

C21_Witness ==
    /\ fin.fn = "execute_query"
    /\ fin.arg = Some(<<number("NumberField", "3.1415926535"),
                        text("TextField", "Plain Text")>>)
    /\ fout.body[1].query_parameters["NumberField"] = "3.1415926535"
    /\ fout.body[1].query_parameters["TextField"] = "Plain Text"

\* C22: a refresh that observed k statuses that are not terminal and then a
\* terminal one, with no failed step before the results request, has made 1
\* submit request, k + 1 status requests, k sleeps and 1 results request;
\* every sleep lies between a status answer and the next status request,
\* the first status request follows the submit answer at once and the
\* results request follows the terminal status at once.
C22_RequestCounts ==
    \A i \in Invocations :
        LET l == log[i]
            k == Cardinality(OkStatus(l) \ TerminalSeen(l))
        IN (pc[i] = "done" /\ TerminalSeen(l) # {}
               /\ Failures(l) \subseteq Responses(l, "results")) =>
            /\ Cardinality(Requests(l, "execute")) = 1
            /\ Cardinality(Requests(l, "status")) = k + 1
            /\ Cardinality(Sleeps(l)) = k
            /\ Cardinality(Requests(l, "results")) = 1
            /\ \A s \in Sleeps(l) :
                   s - 1 \in Responses(l, "status") /\ s + 1 \in Requests(l, "status")
            /\ 1 \in Requests(l, "execute") /\ 2 \in Responses(l, "execute")
            /\ 3 \in Requests(l, "status")
            /\ \A t \in TerminalSeen(l) : t + 1 \in Requests(l, "results")

C22_Witness ==
    /\ pc[1] = "done"
    /\ result[1].ok
    /\ Cardinality(OkStatus(log[1]) \ TerminalSeen(log[1])) = 2
    /\ Cardinality(Sleeps(log[1])) = 2
    /\ Cardinality(Requests(log[1], "status")) = 3

\* C23: every status request and the results request of one refresh
\* invocation carry the handle its own submit answer returned, the same for
\* the whole invocation; no request of the invocation uses another handle.
C23_OwnHandle ==
    \A i \in Invocations :
        LET l == log[i]
            polls == Requests(l, "status") \cup Requests(l, "results")
        IN /\ polls # {} => 2 \in Responses(l, "execute") /\ l[2].out.ok
           /\ \A k \in polls : l[k].arg = l[2].out.val.execution_id
           /\ \A m \in InFlight(i) :
                  m.route # "execute" => m.arg = l[2].out.val.execution_id

C23_Witness ==
    /\ pc[1] = "done"
    /\ result[1].ok
    /\ log[1][2].out.val.execution_id = 2
    /\ Cardinality(Requests(log[1], "status")) >= 2
    /\ \A k \in Requests(log[1], "status") \cup Requests(log[1], "results") :
           log[1][k].arg = 2

\* A status answer that carries a state text which is none of the five.
UnknownState(l) ==
    {k \in Responses(l, "status") :
        l[k].wire \notin {"", "QUERY_STATE_COMPLETED", "QUERY_STATE_EXECUTING",
                          "QUERY_STATE_PENDING", "QUERY_STATE_CANCELLED",
                          "QUERY_STATE_FAILED"}}

\* C24: when a status answer received during refresh carries a state text
\* that is not known, refresh ends there with an error and sends nothing
\* more: no further status request, no sleep and no results request.
C24_UnknownStateEnds ==
    \A i \in Invocations :
        LET l == log[i] IN
        \A k \in UnknownState(l) :
            /\ ~l[k].out.ok
            /\ k = Len(l)
            /\ pc[i] = "done"
            /\ result[i] = l[k].out
            /\ InFlight(i) = {}
            /\ Requests(l, "results") = {}

C24_Witness ==
    /\ UnknownState(log[1]) # {}
    /\ Cardinality(Sleeps(log[1])) >= 1
    /\ pc[1] = "done"
    /\ ~result[1].ok

\* C25: whenever refresh returns successfully, the state of the response
\* it returns is terminal and is the terminal status the loop observed last.
C25_ReturnedState ==
    \A i \in Invocations :
        LET l == log[i] IN
        (pc[i] = "done" /\ result[i].ok) =>
            /\ result[i].val.state \in {"Complete", "Cancelled", "Failed"}
            /\ result[i].val.state = status[i]
            /\ \E k \in OkStatus(l) :
                   /\ After(l, k, OkStatus(l)) = {}
                   /\ l[k].out.val.state = result[i].val.state

C25_Witness ==
    /\ pc[1] = "done"
    /\ result[1].ok
    /\ result[1].val.state = "Complete"
    /\ status[1] = "Complete"
    /\ Cardinality(OkStatus(log[1])) >= 2
====
